---- MODULE Spec2Model ----
(***************************************************************************)
(* WishperPro: the transcript sanitizer and audio admission gate of        *)
(* electron/openai.ts (transcribeAudio, transcribeAudioStream) and the     *)
(* recording pipeline of src/components/Recorder.tsx.                      *)
(*                                                                         *)
(* A text is a sequence of characters; a character is a one-character      *)
(* string.  The regular expressions of the cleanup chain are modelled on   *)
(* characters, as sets of match positions: a position p in 1..Len(s)+1 is  *)
(* the index of the next character a match would consume.                  *)
(***************************************************************************)
EXTENDS Integers, Sequences, FiniteSets, TLC

Min(S) == CHOOSE x \in S : \A y \in S : x <= y
Max(S) == CHOOSE x \in S : \A y \in S : x >= y

(***************************************************************************)
(* Character classes of the JavaScript regular expressions.                *)
(***************************************************************************)
\* the characters '.' does not match
LineTerminators == {"\n", "\r"}
\* \s, and the characters String.prototype.trim removes
WhiteSpace == {" ", "\t", "\n", "\r"}
\* [a-z]
AsciiLower ==
  {"a","b","c","d","e","f","g","h","i","j","k","l","m",
   "n","o","p","q","r","s","t","u","v","w","x","y","z"}
\* the canonical form the i flag compares
LowerMap ==
  ("A" :> "a") @@ ("B" :> "b") @@ ("C" :> "c") @@ ("D" :> "d") @@ ("E" :> "e") @@
  ("F" :> "f") @@ ("G" :> "g") @@ ("H" :> "h") @@ ("I" :> "i") @@ ("J" :> "j") @@
  ("K" :> "k") @@ ("L" :> "l") @@ ("M" :> "m") @@ ("N" :> "n") @@ ("O" :> "o") @@
  ("P" :> "p") @@ ("Q" :> "q") @@ ("R" :> "r") @@ ("S" :> "s") @@ ("T" :> "t") @@
  ("U" :> "u") @@ ("V" :> "v") @@ ("W" :> "w") @@ ("X" :> "x") @@ ("Y" :> "y") @@
  ("Z" :> "z") @@ ("É" :> "é") @@ ("À" :> "à") @@ ("Á" :> "á") @@ ("Ã" :> "ã") @@
  ("Ç" :> "ç") @@ ("Ê" :> "ê")
Lower(c) == IF c \in DOMAIN LowerMap THEN LowerMap[c] ELSE c

(***************************************************************************)
(* Regular-expression pieces.  P is a set of positions of s.               *)
(***************************************************************************)
\* \s+
SpacePlus(s, P) ==
  {q \in 2..(Len(s) + 1) :
     /\ s[q - 1] \in WhiteSpace
     /\ \E p \in P : p < q /\ \A k \in p..(q - 1) : s[k] \in WhiteSpace}
\* \s*
SpaceStar(s, P) == P \cup SpacePlus(s, P)
\* a literal word w (given in lower case) under the i flag
Lit(s, P, w) ==
  {p + Len(w) : p \in {r \in P : /\ r + Len(w) - 1 <= Len(s)
                                 /\ \A k \in 1..Len(w) : Lower(s[r + k - 1]) = w[k]}}
\* [C]?
OptIn(s, P, C) == P \cup {p + 1 : p \in {r \in P : r <= Len(s) /\ s[r] \in C}}
\* .*$ matches from a position of P: no line terminator up to the end of s
DotStarToEnd(s, P) ==
  \E p \in P : \A k \in p..Len(s) : s[k] \notin LineTerminators
\* the whole of s is w, under the i flag
EqCI(s, w) == Len(s) = Len(w) /\ \A k \in 1..Len(w) : Lower(s[k]) = w[k]
\* ^(w)\.?$ under the i flag
WordDot(s, w) == EqCI(s, w) \/ EqCI(s, w \o <<".">>)
\* ^w under the i flag
PrefixCI(s, w) == Len(s) >= Len(w) /\ \A k \in 1..Len(w) : Lower(s[k]) = w[k]

\* the characters of s at the indices keep marks, in order
RECURSIVE PickFrom(_, _, _)
PickFrom(s, keep, i) ==
  IF i > Len(s) THEN <<>>
  ELSE (IF keep[i] THEN <<s[i]>> ELSE <<>>) \o PickFrom(s, keep, i + 1)

\* s.replace(re, '') for a regular expression that ends in $: the leftmost
\* match runs to the end of s, so what is left is the text before it.
\* starts is the set of indices at which the expression matches.
TruncateAt(s, starts) ==
  IF starts = {} THEN s ELSE SubSeq(s, 1, Min(starts) - 1)

(***************************************************************************)
(* The cleanup chain, one operator per replace call.                       *)
(***************************************************************************)
\* .replace(/\[.*?\]/g, '') and .replace(/\(.*?\)/g, ''): scanning from i,
\* an opening delimiter with a closing one later on the same line is removed
\* up to the first closing delimiter.
RECURSIVE RemoveDelimited(_, _, _, _)
RemoveDelimited(s, open, close, i) ==
  IF i > Len(s) THEN <<>>
  ELSE LET closes == {j \in (i + 1)..Len(s) : s[j] = close}
       IN IF /\ s[i] = open
             /\ closes # {}
             /\ \A k \in (i + 1)..(Min(closes) - 1) : s[k] \notin LineTerminators
          THEN RemoveDelimited(s, open, close, Min(closes) + 1)
          ELSE <<s[i]>> \o RemoveDelimited(s, open, close, i + 1)

\* a text without the opening delimiter has no match and stays as it is
RemoveBrackets(s) ==
  IF \A i \in 1..Len(s) : s[i] # "[" THEN s ELSE RemoveDelimited(s, "[", "]", 1)
RemoveParens(s) ==
  IF \A i \in 1..Len(s) : s[i] # "(" THEN s ELSE RemoveDelimited(s, "(", ")", 1)

\* a run of one character of C, repeated, becomes that character once
CollapseRepeats(s, C) ==
  IF \A i \in 2..Len(s) : ~(s[i] \in C /\ s[i - 1] = s[i])
  THEN s
  ELSE PickFrom(s, [i \in 1..Len(s) |-> ~(i > 1 /\ s[i] \in C /\ s[i - 1] = s[i])], 1)

\* .replace(/\.{2,}/g, '.')
CollapseDots(s) == CollapseRepeats(s, {"."})

\* .replace(/\s{2,}/g, ' '): a run of two or more whitespace characters
\* becomes one space; a single whitespace character stays as it is.
CollapseSpaces(s) ==
  LET n == Len(s)
      ws(i) == i >= 1 /\ i <= n /\ s[i] \in WhiteSpace
      inRun(i) == ws(i) /\ (ws(i - 1) \/ ws(i + 1))
      mapped == [i \in 1..n |-> IF inRun(i) THEN " " ELSE s[i]]
      keep == [i \in 1..n |-> ~(inRun(i) /\ ws(i - 1))]
  IN IF \A i \in 1..n : ~inRun(i) THEN s ELSE PickFrom(mapped, keep, 1)

\* .replace(/\\+/g, '')
RemoveBackslashes(s) == SelectSeq(s, LAMBDA c : c # "\\")

\* \s+(e\s+ai|ai|eh|hm|mm|uh|ah|oh)\s*[,.]?\s*
FillerUnit(s, P) ==
  LET a == SpacePlus(s, P)
      w == Lit(s, SpacePlus(s, Lit(s, a, <<"e">>)), <<"a","i">>)
           \cup Lit(s, a, <<"a","i">>) \cup Lit(s, a, <<"e","h">>) \cup Lit(s, a, <<"h","m">>)
           \cup Lit(s, a, <<"m","m">>) \cup Lit(s, a, <<"u","h">>) \cup Lit(s, a, <<"a","h">>)
           \cup Lit(s, a, <<"o","h">>)
  IN SpaceStar(s, OptIn(s, SpaceStar(s, w), {",", "."}))

\* ( ... )+
RECURSIVE FillerUnits(_, _)
FillerUnits(s, P) ==
  IF P = {} THEN {}
  ELSE LET Q == FillerUnit(s, P) IN Q \cup FillerUnits(s, Q)

\* .replace(/(\s+(e\s+ai|ai|eh|hm|mm|uh|ah|oh)\s*[,.]?\s*)+$/gi, '')
StripFillers(s) ==
  TruncateAt(s, {i \in 1..Len(s) : s[i] \in WhiteSpace
                                    /\ (Len(s) + 1) \in FillerUnits(s, {i})})

\* .replace(/\s+legendas\s+.*$/gi, '')
StripLegendas(s) ==
  TruncateAt(s, {i \in 1..Len(s) :
     /\ s[i] \in WhiteSpace
     /\ DotStarToEnd(s, SpacePlus(s, Lit(s, SpacePlus(s, {i}), <<"l","e","g","e","n","d","a","s">>)))})

\* .replace(/\s+(obrigad[oa]|obrigado por assistir|inscreva-se).*$/gi, '')
StripOutros(s) ==
  TruncateAt(s, {i \in 1..Len(s) :
     /\ s[i] \in WhiteSpace
     /\ LET a == SpacePlus(s, {i})
            w == Lit(s, a, <<"o","b","r","i","g","a","d","o">>) \cup Lit(s, a, <<"o","b","r","i","g","a","d","a">>)
                 \cup Lit(s, a, <<"o","b","r","i","g","a","d","o"," ","p","o","r"," ","a","s","s","i","s","t","i","r">>)
                 \cup Lit(s, a, <<"i","n","s","c","r","e","v","a","-","s","e">>)
        IN DotStarToEnd(s, w)})

\* a trim that removes trailing whitespace only
TrimEndOnly(s) ==
  LET solid == {i \in 1..Len(s) : s[i] \notin WhiteSpace}
  IN IF solid = {} THEN <<>> ELSE SubSeq(s, 1, Max(solid))

\* .trim()
Trim(s) ==
  LET solid == {i \in 1..Len(s) : s[i] \notin WhiteSpace}
  IN IF solid = {} THEN <<>> ELSE SubSeq(s, Min(solid), Max(solid))

\* cleanText.replace(/([,.!?])\1+/g, '$1')
CollapsePunctuation(s) == CollapseRepeats(s, {",", ".", "!", "?"})

\* the chain with whitespace collapsed before the annotations are removed
CleanUpSpacesFirst(text) ==
  CollapsePunctuation(
    Trim(
      StripOutros(
        StripLegendas(
          StripFillers(
            RemoveBackslashes(
              CollapseDots(
                RemoveParens(
                  RemoveBrackets(
                    CollapseSpaces(text))))))))))

\* the chain from transcription.text to cleanText
CleanUp(text) ==
  CollapsePunctuation(
    Trim(
      StripOutros(
        StripLegendas(
          StripFillers(
            RemoveBackslashes(
              CollapseSpaces(
                CollapseDots(
                  RemoveParens(
                    RemoveBrackets(text))))))))))

(***************************************************************************)
(* commonHallucinations: the signature at index k of the list tested on s. *)
(***************************************************************************)
NumSignatures == 13
\* .{0,20} of the last signature
ShortQuestionMax == 20

Signature(k, s) ==
  CASE k = 1 -> WordDot(s, <<"e","u"," ","s","o","u"," ","e","s","t","u","d","a","n","t","e">>) \/ WordDot(s, <<"s","o","u"," ","e","s","t","u","d","a","n","t","e">>)
    [] k = 2 -> WordDot(s, <<"o","b","r","i","g","a","d","o">>) \/ WordDot(s, <<"o","b","r","i","g","a","d","a">>)
    [] k = 3 -> \/ WordDot(s, <<"o","l","á">>) \/ WordDot(s, <<"o","i">>)
                \/ WordDot(s, <<"b","o","m"," ","d","i","a">>) \/ WordDot(s, <<"b","o","a"," ","t","a","r","d","e">>)
                \/ WordDot(s, <<"b","o","a"," ","n","o","i","t","e">>)
    [] k = 4 -> \/ WordDot(s, <<"s","i","m">>) \/ WordDot(s, <<"n","ã","o">>)
                \/ WordDot(s, <<"o","k">>) \/ WordDot(s, <<"c","e","r","t","o">>)
    [] k = 5 -> \A i \in 1..Len(s) : s[i] \in WhiteSpace \cup {".", ",", "-"}
    [] k = 6 -> /\ Len(s) \in {1, 2}
                /\ Lower(s[1]) \in AsciiLower
                /\ Len(s) = 2 => s[2] = "."
    [] k = 7 -> \E v \in {"a", "e", "o", "i", "u", "é", "à"} : WordDot(s, <<v>>)
    [] k = 8 -> PrefixCI(s, <<"t","r","a","n","s","c","r","i","ç","ã","o"," ","e","m"," ","p","o","r","t","u","g","u","ê","s">>)
    [] k = 9 -> PrefixCI(s, <<"t","r","a","n","s","c","r","i","ç","ã","o">>)
    [] k = 10 -> \E v \in {<<"é">>, <<"s","ã","o">>, <<"s","e","r","i","a">>, <<"f","o","i">>} :
                   PrefixCI(s, <<"o"," ","q","u","e"," ">> \o v)
    [] k = 11 -> \E q \in {<<"c","o","m","o">>, <<"q","u","a","n","d","o">>, <<"o","n","d","e">>, <<"p","o","r","q","u","e">>, <<"p","o","r","q","u","ê">>} :
                 \E v \in {<<"é">>, <<"s","ã","o">>, <<"e","s","t","á">>, <<"e","s","t","a","v","a">>} :
                   PrefixCI(s, q \o <<" ">> \o v)
    [] k = 12 -> \E v \in {<<"é">>, <<"s","ã","o">>, <<"f","o","i">>, <<"s","e","r","i","a">>} :
                   PrefixCI(s, <<"q","u","a","l"," ">> \o v)
    [] k = 13 -> /\ Len(s) >= 1
                 /\ s[Len(s)] = "?"
                 /\ Len(s) - 1 <= ShortQuestionMax
                 /\ \A i \in 1..(Len(s) - 1) : s[i] \notin LineTerminators

\* a loop that gives up after the first pattern of the list
IsHallucinationFirstOnly(s) == Signature(1, s)

\* the list without its last pattern, the short question
IsHallucinationNoShortQuestion(s) == \E k \in 1..(NumSignatures - 1) : Signature(k, s)

\* for (const pattern of commonHallucinations) if (pattern.test(cleanText)) return ''
IsHallucination(s) == \E k \in 1..NumSignatures : Signature(k, s)

\* if (cleanText.length < 2) return ''
MinTextLength == 2

\* the return without the final length check
FinalTextNoLengthCheck(clean) ==
  IF IsHallucination(clean) THEN <<>> ELSE clean

\* what transcribeAudio returns for the cleaned text
FinalText(clean) ==
  IF IsHallucination(clean) THEN <<>>
  ELSE IF Len(clean) < MinTextLength THEN <<>>
  ELSE clean

\* the chain of transcribeAudioStream without its closing phrases step
CleanUpStreamNoOutros(fullText) ==
  CollapsePunctuation(
    Trim(
      StripLegendas(
        StripFillers(
          RemoveBackslashes(
            CollapseSpaces(
              CollapseDots(
                RemoveParens(
                  RemoveBrackets(fullText)))))))))

\* the same chain, as written again in transcribeAudioStream
CleanUpStream(fullText) ==
  CollapsePunctuation(
    Trim(
      StripOutros(
        StripLegendas(
          StripFillers(
            RemoveBackslashes(
              CollapseSpaces(
                CollapseDots(
                  RemoveParens(
                    RemoveBrackets(fullText))))))))))

\* the signature list of transcribeAudioStream
StreamSignature(k, s) ==
  CASE k = 1 -> WordDot(s, <<"e","u"," ","s","o","u"," ","e","s","t","u","d","a","n","t","e">>) \/ WordDot(s, <<"s","o","u"," ","e","s","t","u","d","a","n","t","e">>)
    [] k = 2 -> WordDot(s, <<"o","b","r","i","g","a","d","o">>) \/ WordDot(s, <<"o","b","r","i","g","a","d","a">>)
    [] k = 3 -> \/ WordDot(s, <<"o","l","á">>) \/ WordDot(s, <<"o","i">>)
                \/ WordDot(s, <<"b","o","m"," ","d","i","a">>) \/ WordDot(s, <<"b","o","a"," ","t","a","r","d","e">>)
                \/ WordDot(s, <<"b","o","a"," ","n","o","i","t","e">>)
    [] k = 4 -> \/ WordDot(s, <<"s","i","m">>) \/ WordDot(s, <<"n","ã","o">>)
                \/ WordDot(s, <<"o","k">>) \/ WordDot(s, <<"c","e","r","t","o">>)
    [] k = 5 -> \A i \in 1..Len(s) : s[i] \in WhiteSpace \cup {".", ",", "-"}
    [] k = 6 -> /\ Len(s) \in {1, 2}
                /\ Lower(s[1]) \in AsciiLower
                /\ Len(s) = 2 => s[2] = "."
    [] k = 7 -> \E v \in {"a", "e", "o", "i", "u", "é", "à"} : WordDot(s, <<v>>)
    [] k = 8 -> PrefixCI(s, <<"t","r","a","n","s","c","r","i","ç","ã","o"," ","e","m"," ","p","o","r","t","u","g","u","ê","s">>)
    [] k = 9 -> PrefixCI(s, <<"t","r","a","n","s","c","r","i","ç","ã","o">>)
    [] k = 10 -> \E v \in {<<"é">>, <<"s","ã","o">>, <<"s","e","r","i","a">>, <<"f","o","i">>} :
                   PrefixCI(s, <<"o"," ","q","u","e"," ">> \o v)
    [] k = 11 -> \E q \in {<<"c","o","m","o">>, <<"q","u","a","n","d","o">>, <<"o","n","d","e">>, <<"p","o","r","q","u","e">>, <<"p","o","r","q","u","ê">>} :
                 \E v \in {<<"é">>, <<"s","ã","o">>, <<"e","s","t","á">>, <<"e","s","t","a","v","a">>} :
                   PrefixCI(s, q \o <<" ">> \o v)
    [] k = 12 -> \E v \in {<<"é">>, <<"s","ã","o">>, <<"f","o","i">>, <<"s","e","r","i","a">>} :
                   PrefixCI(s, <<"q","u","a","l"," ">> \o v)
    [] k = 13 -> /\ Len(s) >= 1
                 /\ s[Len(s)] = "?"
                 /\ Len(s) - 1 <= ShortQuestionMax
                 /\ \A i \in 1..(Len(s) - 1) : s[i] \notin LineTerminators

IsHallucinationStream(s) == \E k \in 1..NumSignatures : StreamSignature(k, s)

\* what transcribeAudioStream returns for the cleaned text
FinalTextStream(clean) ==
  IF IsHallucinationStream(clean) THEN <<>>
  ELSE IF Len(clean) < MinTextLength THEN <<>>
  ELSE clean

(***************************************************************************)
(* The admission gate.                                                     *)
(***************************************************************************)
\* if (buffer.length < 1000) return ''
MinAudioBytes == 1000
\* a gate that also rejects a buffer of exactly the floor
AdmissionGateStrict(len) == len > MinAudioBytes
AdmissionGate(len) == ~(len < MinAudioBytes)

\* whisperModel.includes('gpt-4o')
WhisperModels == {"whisper-1", "gpt-4o-transcribe"}
IsNewModel(model) == model = "gpt-4o-transcribe"

(***************************************************************************)
(* Inputs: the byte lengths of the audio buffer and the texts the          *)
(* transcription provider answers with.  A provider text is a              *)
(* concatenation of at most MaxTokens tokens of the vocabulary, or one of  *)
(* a few longer statements.                                                *)
(***************************************************************************)
BufferLengths == {0, 999, 1000, 1001}

\* the audioBuffer argument: an ArrayBuffer, or no buffer at all
NoBuffers == {"undefined", "null"}
AudioBuffers == {"ArrayBuffer"} \cup NoBuffers

MaxTokens == 3

Vocabulary ==
  { <<"H","e","l","l","o">>, <<" ","w","o","r","l","d">>, <<" ","o","b","r","i","g","a","d","o">>, <<"O","b","r","i","g","a","d","o">>, <<" ","a","h">>,
    <<" ","[","m","u","s","i","c","]">>, <<" ","(","l","a","u","g","h","s",")">>,
    <<" ">>, <<"\n">>, <<".">>, <<"?">>, <<"a">>, <<"5">>, <<"\\">> }

RECURSIVE Concatenations(_)
Concatenations(n) ==
  IF n = 0 THEN {<<>>}
  ELSE LET shorter == Concatenations(n - 1)
       IN shorter \cup {p \o t : p \in shorter, t \in Vocabulary}

\* longer provider texts: an opening followed by a continuation
Openings ==
  { <<"O"," ","q","u","e"," ","é">>, <<"C","o","m","o"," ","e","s","t","á">>, <<"Q","u","a","l"," ","f","o","i">>, <<"T","r","a","n","s","c","r","i","ç","ã","o">>, <<"Q","u","a","n","d","o">>,
    <<"E","u"," ","d","i","g","o">> }

Continuations ==
  { <<>>, <<" ","i","s","s","o","?">>, <<" ","a"," ","r","e","u","n","i","ã","o"," ","d","e"," ","o","n","t","e","m">>, <<" ","i","m","p","o","r","t","a","n","t","e"," ","a","q","u","i"," ","é"," ","a"," ","c","a","l","m","a",".">>,
    <<" ","o","b","r","i","g","a","d","o"," ","a"," ","t","o","d","o","s">>, <<" ","q","u","e"," ","s","i","m",","," ","n","ã","o","?">>, <<" ","q","u","e"," ","s","i","m",","," ","n","a","d","a","?">> }

Statements == {o \o c : o \in Openings, c \in Continuations}

ProviderTexts == Concatenations(MaxTokens) \cup Statements

(***************************************************************************)
(* One invocation of transcribeAudio or transcribeAudioStream.             *)
(***************************************************************************)
VARIABLES
  pc,            \* "idle", "awaitTranscription", "returned", "thrown"
  fn,            \* the function the caller invoked
  body,          \* the function whose body is executing
  whisperModel,  \* the whisperModel argument
  audioBuffer,   \* the audioBuffer argument: "ArrayBuffer", "undefined" or "null"
  bufLen,        \* buffer.length
  providerCalls, \* calls of openai.audio.transcriptions.create made
  response,      \* what the call settled with: "text" (transcription.text is a
                 \* string), "undefined" (it is undefined) or "error" (rejected)
  rawText,       \* transcription.text, or fullText
  cleanText,     \* the local cleanText
  result         \* the value the promise resolved to

sanVars ==
  <<pc, fn, body, whisperModel, audioBuffer, bufLen, providerCalls, response,
    rawText, cleanText, result>>

\* the state of the Recorder component
VARIABLES
  created,          \* MediaRecorders constructed so far
  recState,         \* of each: "unused", "recording", "stopped" (stop() called),
                    \* "flushed" (dataavailable delivered), "inactive" (onstop ran)
  pendingStarts,    \* startRecording calls awaiting getUserMedia
  mediaRecorderRef, \* mediaRecorderRef.current: a recorder, or 0 for null
  isRecordingRef,   \* isRecordingRef.current
  audioChunks,      \* audioChunksRef.current: [rec, size] of each chunk
  stopDuration,     \* recordingDuration measured when the recorder was stopped, -1 before
  blob,             \* audioBlob of the recorder's onstop: the chunks it was built from
  procPc,           \* processAudio called by the recorder's onstop: "none", "skipped",
                    \* "arrayBuffer", "transcribe", "processText", "paste", "copy", "done"
  isProcessingRef,  \* isProcessingRef.current
  requests,         \* requests[r][c]: invocations of channel c for recorder r's blob
  transcript,       \* what transcribe-audio replied for the recorder's blob, "none" before
  saved,            \* transcriptions saved by process-text for the recorder's blob
  buttonHeld        \* the record button is held down

recVars ==
  <<created, recState, pendingStarts, mediaRecorderRef, isRecordingRef, audioChunks,
    stopDuration, blob, procPc, isProcessingRef, requests, transcript, saved,
    buttonHeld>>

\* the clipboard and the handlers of paste-to-active-window and copy-to-clipboard
VARIABLES
  platform,       \* process.platform, "unknown" until it is first read
  clipboard,      \* what clipboard.readText() returns
  pastePc,        \* of each paste-to-active-window invocation: "idle", "clearWait",
                  \* "syncWait", "retryWait", "importChildProcess", "importUtil",
                  \* "which", "exec", "keyed", "settleWait", "done"
  pasteArg,       \* its text argument
  clearChecks,    \* its loop variable i
  attempt,        \* its loop variable attempt
  writeSuccess,   \* its local writeSuccess
  pasted,         \* what the clipboard held when its keystroke was issued, "none" before
  pasteReply,     \* what it resolved to: "none", "success", "failure"
  fallback,       \* the copy-to-clipboard call of processAudio: its text and
                  \* what its clipboard.writeText did
  copyClicks,     \* copy-to-clipboard calls made by the copy button
  externalWrites, \* clipboard writes of other applications
  tailPc,         \* processAudio from line 977 on: "idle", "paste", "copy", "done"
  toast           \* the toast shown at its end: "none", "colada", "copiada"

clipVars ==
  <<platform, clipboard, pastePc, pasteArg, clearChecks, attempt, writeSuccess,
    pasted, pasteReply, fallback, copyClicks, externalWrites, tailPc, toast>>

\* the process-text handler and the transcriptions table
VARIABLES
  apiKey,         \* the openai_api_key setting, "null" when there is none
  ptPc,           \* of each process-text invocation: "idle", "awaitProvider", "done"
  ptData,         \* its argument: [text, mode, targetLanguage]
  ptReply,        \* what it resolved to: [success, text or error], or "none"
  history         \* the rows of the transcriptions table, in insertion order

ptVars == <<apiKey, ptPc, ptData, ptReply, history>>

\* the save-hotkey handler, the settings table and globalShortcut
VARIABLES
  hotkeySetting,  \* the recording_hotkey setting, "none" when there is no row
  registered,     \* the accelerators registered with globalShortcut
  hkCalls,        \* save-hotkey invocations so far
  hkArg,          \* the argument of the last one
  hkBefore,       \* the setting and the registrations it found
  registerRet,    \* what globalShortcut.register did in it: "none" (not
                  \* reached), "true", "false", "thrown"
  hkReply         \* what it resolved to: "none", "success", "failure"

hkVars == <<hotkeySetting, registered, hkCalls, hkArg, hkBefore, registerRet, hkReply>>

\* the handlers registered with ipcMain.handle, as try/catch envelopes
VARIABLES
  invocations     \* the invocations made so far: [channel, state: "running",
                  \* "resolved" or "rejected"], and once settled the success
                  \* field of the value resolved to and how the body ended

genVars == <<invocations>>

ipcVars == <<clipVars, ptVars, hkVars, genVars>>

SanInit ==
  /\ pc = "idle"
  /\ fn = "none"
  /\ body = "none"
  /\ whisperModel = "none"
  /\ audioBuffer = "none"
  /\ bufLen = 0
  /\ providerCalls = 0
  /\ response = "none"
  /\ rawText = <<>>
  /\ cleanText = <<>>
  /\ result = <<>>

\* transcribeAudio from its entry to its first await: the size gate, then
\* the request to the provider
TranscribeAudioEnter(len, model) ==
  /\ body' = "transcribeAudio"
  /\ whisperModel' = model
  /\ bufLen' = len
  /\ IF AdmissionGate(len)
     THEN /\ pc' = "awaitTranscription"
          /\ providerCalls' = providerCalls + 1
          /\ result' = result
     ELSE /\ pc' = "returned"
          /\ providerCalls' = providerCalls
          /\ result' = <<>>
  /\ UNCHANGED <<rawText, cleanText, response>>

\* transcribeAudioStream with the size check placed after the request
TranscribeAudioStreamEnterLateGate(len, model) ==
  IF ~IsNewModel(model)
  THEN TranscribeAudioEnter(len, model)
  ELSE /\ body' = "transcribeAudioStream"
       /\ whisperModel' = model
       /\ bufLen' = len
       /\ providerCalls' = providerCalls + 1
       /\ IF AdmissionGate(len)
          THEN pc' = "awaitTranscription" /\ result' = result
          ELSE pc' = "returned" /\ result' = <<>>
       /\ UNCHANGED <<rawText, cleanText, response>>

\* transcribeAudioStream from its entry to its first await: the fallback to
\* transcribeAudio for the other models, the size gate, the request
TranscribeAudioStreamEnter(len, model) ==
  IF ~IsNewModel(model)
  THEN TranscribeAudioEnter(len, model)
  ELSE /\ body' = "transcribeAudioStream"
       /\ whisperModel' = model
       /\ bufLen' = len
       /\ IF AdmissionGate(len)
          THEN /\ pc' = "awaitTranscription"
               /\ providerCalls' = providerCalls + 1
               /\ result' = result
          ELSE /\ pc' = "returned"
               /\ providerCalls' = providerCalls
               /\ result' = <<>>
       /\ UNCHANGED <<rawText, cleanText, response>>

\* Buffer.from(audioBuffer) throws a TypeError when audioBuffer is undefined
\* or null: the promise of the async function f is rejected
BufferFromThrows(f, model) ==
  /\ body' = f
  /\ whisperModel' = model
  /\ pc' = "thrown"
  /\ UNCHANGED <<bufLen, providerCalls, response, rawText, cleanText, result>>

CallTranscribeAudio ==
  /\ pc = "idle"
  /\ fn' = "transcribeAudio"
  /\ \E b \in AudioBuffers, model \in WhisperModels :
       /\ audioBuffer' = b
       /\ IF b \in NoBuffers
          THEN BufferFromThrows("transcribeAudio", model)
          ELSE \E len \in BufferLengths : TranscribeAudioEnter(len, model)
  /\ UNCHANGED <<recVars, ipcVars>>

CallTranscribeAudioStream ==
  /\ pc = "idle"
  /\ fn' = "transcribeAudioStream"
  /\ \E b \in AudioBuffers, model \in WhisperModels :
       /\ audioBuffer' = b
       /\ IF b \in NoBuffers
          THEN BufferFromThrows("transcribeAudioStream", model)
          ELSE \E len \in BufferLengths : TranscribeAudioStreamEnter(len, model)
  /\ UNCHANGED <<recVars, ipcVars>>

\* the provider answers transcribeAudio: cleanup, signatures, length check.
\* When transcription.text is undefined, transcription.text.replace throws a
\* TypeError after the try block.
TranscriptionReceived ==
  /\ pc = "awaitTranscription"
  /\ body = "transcribeAudio"
  /\ \E r \in {"text", "undefined"} :
       /\ response' = r
       /\ IF r = "undefined"
          THEN /\ pc' = "thrown"
               /\ UNCHANGED <<rawText, cleanText, result>>
          ELSE /\ pc' = "returned"
               /\ \E text \in ProviderTexts :
                    /\ rawText' = text
                    /\ cleanText' = CleanUp(text)
                    /\ result' = FinalText(cleanText')
  /\ UNCHANGED <<fn, body, whisperModel, audioBuffer, bufLen, providerCalls>>
  /\ UNCHANGED <<recVars, ipcVars>>

\* the provider's stream ends in transcribeAudioStream with fullText, the
\* concatenation of the events that are strings ('' when there is none)
StreamReceived ==
  /\ pc = "awaitTranscription"
  /\ body = "transcribeAudioStream"
  /\ \E text \in ProviderTexts :
       /\ rawText' = text
       /\ cleanText' = CleanUpStream(text)
       /\ result' = FinalTextStream(cleanText')
  /\ pc' = "returned"
  /\ response' = "text"
  /\ UNCHANGED <<fn, body, whisperModel, audioBuffer, bufLen, providerCalls>>
  /\ UNCHANGED <<recVars, ipcVars>>

\* the provider call fails: transcribeAudio rethrows, the stream's await rejects
TranscriptionFailed ==
  /\ pc = "awaitTranscription"
  /\ pc' = "thrown"
  /\ response' = "error"
  /\ UNCHANGED <<fn, body, whisperModel, audioBuffer, bufLen, providerCalls, rawText,
                 cleanText, result>>
  /\ UNCHANGED <<recVars, ipcVars>>

SanNext ==
  \/ CallTranscribeAudio
  \/ CallTranscribeAudioStream
  \/ TranscriptionReceived
  \/ StreamReceived
  \/ TranscriptionFailed


(***************************************************************************)
(* The Recorder component: startRecording, stopRecording, the              *)
(* MediaRecorder events and processAudio.  A MediaRecorder is numbered in  *)
(* the order of its creation.  stop() queues a dataavailable event and     *)
(* then a stop event; start() is called without a timeslice, so that is    *)
(* the only dataavailable event of a recorder.                             *)
(***************************************************************************)
MaxRecordings == 2
Recorders == 1..MaxRecordings

\* event.data.size of the dataavailable event
ChunkSizes == {0, 3000, 3001}
\* Date.now() - recordingStartTimeRef.current at stopRecording
Durations == {499, 500}
\* if (recordingDuration < 500)
MinRecordingMs == 500
\* if (audioBlob.size > 3000)
MinBlobBytes == 3000

Channels ==
  {"transcribe-audio", "process-text", "paste-to-active-window", "copy-to-clipboard"}

RecInit ==
  /\ created = 0
  /\ recState = [r \in Recorders |-> "unused"]
  /\ pendingStarts = 0
  /\ mediaRecorderRef = 0
  /\ isRecordingRef = FALSE
  /\ audioChunks = <<>>
  /\ stopDuration = [r \in Recorders |-> -1]
  /\ blob = [r \in Recorders |-> <<>>]
  /\ procPc = [r \in Recorders |-> "none"]
  /\ isProcessingRef = FALSE
  /\ requests = [r \in Recorders |-> [c \in Channels |-> 0]]
  /\ transcript = [r \in Recorders |-> "none"]
  /\ saved = [r \in Recorders |-> 0]
  /\ buttonHeld = FALSE

\* audioBlob.size
RECURSIVE BlobSize(_)
BlobSize(chunks) ==
  IF chunks = <<>> THEN 0 ELSE Head(chunks).size + BlobSize(Tail(chunks))

\* stop() queues one task that fires dataavailable and then stop at the
\* recorder: between the two handlers no other task runs
Dispatching == \E r \in Recorders : recState[r] = "flushed"

\* startRecording up to its await of getUserMedia
StartRecording ==
  /\ created + pendingStarts < MaxRecordings
  /\ pendingStarts' = pendingStarts + 1
  /\ UNCHANGED <<created, recState, mediaRecorderRef, isRecordingRef, audioChunks,
                 stopDuration, blob, procPc, isProcessingRef, requests, transcript, saved>>

\* getUserMedia resolves: the rest of startRecording
GetUserMediaResolved ==
  /\ ~Dispatching
  /\ pendingStarts > 0
  /\ pendingStarts' = pendingStarts - 1
  /\ created' = created + 1
  /\ mediaRecorderRef' = created + 1
  /\ audioChunks' = <<>>
  /\ recState' = [recState EXCEPT ![created + 1] = "recording"]
  /\ isRecordingRef' = TRUE
  /\ UNCHANGED <<stopDuration, blob, procPc, isProcessingRef, requests, transcript, saved>>
  /\ UNCHANGED <<buttonHeld, sanVars, ipcVars>>

\* getUserMedia rejects: the catch block of startRecording
GetUserMediaRejected ==
  /\ ~Dispatching
  /\ pendingStarts > 0
  /\ pendingStarts' = pendingStarts - 1
  /\ UNCHANGED <<created, recState, mediaRecorderRef, isRecordingRef, audioChunks,
                 stopDuration, blob, procPc, isProcessingRef, requests, transcript, saved>>
  /\ UNCHANGED <<buttonHeld, sanVars, ipcVars>>

\* stopRecording, recordingDuration being d
StopRecording(d) ==
  IF mediaRecorderRef # 0 /\ isRecordingRef
  THEN /\ recState' = [recState EXCEPT ![mediaRecorderRef] = "stopped"]
       /\ stopDuration' = [stopDuration EXCEPT ![mediaRecorderRef] = d]
       /\ isRecordingRef' = FALSE
       /\ audioChunks' = IF d < MinRecordingMs THEN <<>> ELSE audioChunks
       /\ UNCHANGED <<created, pendingStarts, mediaRecorderRef, blob, procPc,
                      isProcessingRef, requests, transcript, saved>>
  ELSE UNCHANGED <<created, recState, pendingStarts, mediaRecorderRef, isRecordingRef,
                   audioChunks, stopDuration, blob, procPc, isProcessingRef, requests,
                   transcript, saved>>

\* the button: onMouseDown / onTouchStart, disabled while processing
ButtonPress ==
  /\ ~Dispatching
  /\ ~buttonHeld
  /\ ~isProcessingRef
  /\ buttonHeld' = TRUE
  /\ StartRecording
  /\ UNCHANGED <<sanVars, ipcVars>>

\* the button: onMouseUp / onTouchEnd; a disabled button delivers no event
ButtonRelease ==
  /\ ~Dispatching
  /\ buttonHeld
  /\ buttonHeld' = FALSE
  /\ IF isProcessingRef
     THEN UNCHANGED <<created, recState, pendingStarts, mediaRecorderRef, isRecordingRef,
                      audioChunks, stopDuration, blob, procPc, isProcessingRef, requests,
                      transcript, saved>>
     ELSE \E d \in Durations : StopRecording(d)
  /\ UNCHANGED <<sanVars, ipcVars>>

\* handleToggle, the listener of toggle-recording
HandleToggle ==
  /\ ~Dispatching
  /\ IF isRecordingRef THEN \E d \in Durations : StopRecording(d) ELSE StartRecording
  /\ UNCHANGED <<buttonHeld, sanVars, ipcVars>>

\* mediaRecorder.ondataavailable
OnDataAvailable(r) ==
  /\ ~Dispatching
  /\ recState[r] = "stopped"
  /\ recState' = [recState EXCEPT ![r] = "flushed"]
  /\ \E size \in ChunkSizes :
       audioChunks' = IF size > 0
                      THEN Append(audioChunks, [rec |-> r, size |-> size])
                      ELSE audioChunks
  /\ UNCHANGED <<created, pendingStarts, mediaRecorderRef, isRecordingRef,
                 stopDuration, blob, procPc, isProcessingRef, requests, transcript, saved>>
  /\ UNCHANGED <<buttonHeld, sanVars, ipcVars>>

\* an onstop that hands every non-empty blob to processAudio
OnStopNoSizeGate(r) ==
  /\ recState[r] = "flushed"
  /\ recState' = [recState EXCEPT ![r] = "inactive"]
  /\ IF Len(audioChunks) = 0
     THEN UNCHANGED <<audioChunks, blob, procPc, isProcessingRef>>
     ELSE /\ blob' = [blob EXCEPT ![r] = audioChunks]
          /\ IF isProcessingRef
             THEN /\ procPc' = [procPc EXCEPT ![r] = "skipped"]
                  /\ audioChunks' = <<>>
                  /\ UNCHANGED isProcessingRef
             ELSE /\ procPc' = [procPc EXCEPT ![r] = "arrayBuffer"]
                  /\ isProcessingRef' = TRUE
                  /\ UNCHANGED audioChunks
  /\ UNCHANGED <<created, pendingStarts, mediaRecorderRef, isRecordingRef,
                 stopDuration, requests, transcript, saved>>
  /\ UNCHANGED <<buttonHeld, sanVars, ipcVars>>

\* mediaRecorder.onstop up to its await of processAudio; processAudio up to
\* its await of audioBlob.arrayBuffer().  When processAudio returns at once
\* (isProcessingRef set) or is not called, onstop runs to its end.
OnStop(r) ==
  /\ recState[r] = "flushed"
  /\ recState' = [recState EXCEPT ![r] = "inactive"]
  /\ IF Len(audioChunks) = 0
     THEN UNCHANGED <<audioChunks, blob, procPc, isProcessingRef>>
     ELSE /\ blob' = [blob EXCEPT ![r] = audioChunks]
          /\ IF BlobSize(audioChunks) > MinBlobBytes
             THEN IF isProcessingRef
                  THEN /\ procPc' = [procPc EXCEPT ![r] = "skipped"]
                       /\ audioChunks' = <<>>
                       /\ UNCHANGED isProcessingRef
                  ELSE /\ procPc' = [procPc EXCEPT ![r] = "arrayBuffer"]
                       /\ isProcessingRef' = TRUE
                       /\ UNCHANGED audioChunks
             ELSE /\ audioChunks' = <<>>
                  /\ UNCHANGED <<procPc, isProcessingRef>>
  /\ UNCHANGED <<created, pendingStarts, mediaRecorderRef, isRecordingRef,
                 stopDuration, requests, transcript, saved>>
  /\ UNCHANGED <<buttonHeld, sanVars, ipcVars>>

\* processAudio invokes channel c for recorder r's blob and awaits the reply
Invoke(r, c, next) ==
  /\ requests' = [requests EXCEPT ![r][c] = @ + 1]
  /\ procPc' = [procPc EXCEPT ![r] = next]
  /\ UNCHANGED <<audioChunks, isProcessingRef>>

\* a processAudio whose finally block leaves the flag set
FinishKeepsFlag(r) ==
  /\ procPc' = [procPc EXCEPT ![r] = "done"]
  /\ isProcessingRef' = isProcessingRef
  /\ audioChunks' = <<>>
  /\ UNCHANGED requests

\* processAudio leaves through its finally block, and the onstop that
\* awaited it clears the chunks
Finish(r) ==
  /\ procPc' = [procPc EXCEPT ![r] = "done"]
  /\ isProcessingRef' = FALSE
  /\ audioChunks' = <<>>
  /\ UNCHANGED requests

\* arrayBuffer() resolves: window.electronAPI.transcribeAudio is invoked
ArrayBufferResolved(r) ==
  /\ ~Dispatching
  /\ procPc[r] = "arrayBuffer"
  /\ Invoke(r, "transcribe-audio", "transcribe")
  /\ UNCHANGED <<transcript, saved>>
  /\ UNCHANGED <<created, recState, pendingStarts, mediaRecorderRef, isRecordingRef,
                 stopDuration, blob, buttonHeld>>
  /\ UNCHANGED <<sanVars, ipcVars>>

\* the replies a channel can give: "error" is {success: false}, "empty" a
\* text of fewer than 2 characters after trim, "text" a longer text
Replies == {"error", "empty", "text"}

\* processAudio without its test of an empty transcription
TranscribeRepliedNoEmptyCheck(r) ==
  /\ ~Dispatching
  /\ procPc[r] = "transcribe"
  /\ \E reply \in Replies :
       /\ ~AdmissionGate(BlobSize(blob[r])) => reply # "text"
       /\ transcript' = [transcript EXCEPT ![r] = reply]
       /\ IF reply # "error"
          THEN Invoke(r, "process-text", "processText")
          ELSE Finish(r)
  /\ UNCHANGED <<created, recState, pendingStarts, mediaRecorderRef, isRecordingRef,
                 stopDuration, blob, buttonHeld>>
  /\ UNCHANGED saved
  /\ UNCHANGED <<sanVars, ipcVars>>

\* transcribe-audio replies.  A blob the admission gate rejects gives ''.
TranscribeReplied(r) ==
  /\ ~Dispatching
  /\ procPc[r] = "transcribe"
  /\ \E reply \in Replies :
       /\ ~AdmissionGate(BlobSize(blob[r])) => reply # "text"
       /\ transcript' = [transcript EXCEPT ![r] = reply]
       /\ IF reply = "text"
          THEN Invoke(r, "process-text", "processText")
          ELSE Finish(r)
  /\ UNCHANGED <<created, recState, pendingStarts, mediaRecorderRef, isRecordingRef,
                 stopDuration, blob, buttonHeld>>
  /\ UNCHANGED saved
  /\ UNCHANGED <<sanVars, ipcVars>>

\* process-text replies.  Its handler saves the transcription when
\* processText has not thrown, whatever the processed text is.
ProcessTextReplied(r) ==
  /\ ~Dispatching
  /\ procPc[r] = "processText"
  /\ \E reply \in Replies :
       /\ saved' = [saved EXCEPT ![r] = IF reply = "error" THEN @ ELSE @ + 1]
       /\ IF reply = "text"
          THEN Invoke(r, "paste-to-active-window", "paste")
          ELSE Finish(r)
  /\ UNCHANGED transcript
  /\ UNCHANGED <<created, recState, pendingStarts, mediaRecorderRef, isRecordingRef,
                 stopDuration, blob, buttonHeld>>
  /\ UNCHANGED <<sanVars, ipcVars>>

\* paste-to-active-window replies
PasteReplied(r) ==
  /\ ~Dispatching
  /\ procPc[r] = "paste"
  /\ \E success \in BOOLEAN :
       IF success
       THEN Finish(r)
       ELSE Invoke(r, "copy-to-clipboard", "copy")
  /\ UNCHANGED <<created, recState, pendingStarts, mediaRecorderRef, isRecordingRef,
                 stopDuration, blob, buttonHeld>>
  /\ UNCHANGED <<transcript, saved>>
  /\ UNCHANGED <<sanVars, ipcVars>>

\* copy-to-clipboard replies
CopyReplied(r) ==
  /\ ~Dispatching
  /\ procPc[r] = "copy"
  /\ Finish(r)
  /\ UNCHANGED <<created, recState, pendingStarts, mediaRecorderRef, isRecordingRef,
                 stopDuration, blob, buttonHeld>>
  /\ UNCHANGED <<transcript, saved>>
  /\ UNCHANGED <<sanVars, ipcVars>>

RecNext ==
  \/ ButtonPress
  \/ ButtonRelease
  \/ HandleToggle
  \/ GetUserMediaResolved
  \/ GetUserMediaRejected
  \/ \E r \in Recorders : OnDataAvailable(r)
  \/ \E r \in Recorders : OnStop(r)
  \/ \E r \in Recorders : ArrayBufferResolved(r)
  \/ \E r \in Recorders : TranscribeReplied(r)
  \/ \E r \in Recorders : ProcessTextReplied(r)
  \/ \E r \in Recorders : PasteReplied(r)
  \/ \E r \in Recorders : CopyReplied(r)


(***************************************************************************)
(* The clipboard: the handlers of paste-to-active-window and               *)
(* copy-to-clipboard in the main process, and their callers in the         *)
(* Recorder (processAudio from its paste on, the buttons of pasteText and  *)
(* copyToClipboard).  A handler runs from one await to the next without    *)
(* interruption; between two awaits the other handlers and the other       *)
(* applications run.                                                       *)
(***************************************************************************)
\* process.platform, "unknown" in the model until the handler first reads it
Platforms == {"darwin", "linux", "win32"}

\* the callers of window.electronAPI.pasteToActiveWindow
PasteCallers == {"processAudio", "pasteText"}

\* processResult.text of the pipeline at hand
ProcessedText == "Olá, mundo."
\* finalText as the buttons see it: of this pipeline, or of the one before
FinalTexts == {ProcessedText, "Bom dia a todos."}
\* what another application copies
ExternalText == "https://example.org"

\* for (let i = 0; i < 3; i++)
MaxClearChecks == 3
\* const maxAttempts = 5
MaxAttempts == 5

MaxExternalWrites == 1
MaxCopyClicks == 1

\* processAudio has not called copyToClipboard
NoFallback == [text |-> "none", outcome |-> "none"]

\* what a call of clipboard.writeText or clipboard.clear does: the content
\* is replaced, or the call returns and a later read still gives the old
\* content (the case the handler's read-back loops are written for)
WriteOutcomes == {"written", "lost"}

ClipInit ==
  /\ platform = "unknown"
  /\ clipboard = ""
  /\ pastePc = [c \in PasteCallers |-> "idle"]
  /\ pasteArg = [c \in PasteCallers |-> "none"]
  /\ clearChecks = [c \in PasteCallers |-> 0]
  /\ attempt = [c \in PasteCallers |-> 0]
  /\ writeSuccess = [c \in PasteCallers |-> FALSE]
  /\ pasted = [c \in PasteCallers |-> "none"]
  /\ pasteReply = [c \in PasteCallers |-> "none"]
  /\ fallback = NoFallback
  /\ copyClicks = 0
  /\ externalWrites = 0
  /\ tailPc = "idle"
  /\ toast = "none"

\* the handler leaves through return { success: true }
PasteSucceed(c) ==
  /\ pastePc' = [pastePc EXCEPT ![c] = "done"]
  /\ pasteReply' = [pasteReply EXCEPT ![c] = "success"]

\* the handler leaves through its catch block: { success: false, error }
PasteFail(c) ==
  /\ pastePc' = [pastePc EXCEPT ![c] = "done"]
  /\ pasteReply' = [pasteReply EXCEPT ![c] = "failure"]

\* paste-to-active-window from its entry to the first await: clipboard.clear()
PasteEnter(c, text) ==
  /\ pastePc[c] = "idle"
  /\ pasteArg' = [pasteArg EXCEPT ![c] = text]
  /\ \E o \in WriteOutcomes : clipboard' = IF o = "written" THEN "" ELSE clipboard
  /\ pastePc' = [pastePc EXCEPT ![c] = "clearWait"]
  /\ UNCHANGED <<platform, clearChecks, attempt, writeSuccess, pasted, pasteReply,
                 fallback, copyClicks, externalWrites, toast>>

\* one pass of the write loop up to its await: clipboard.writeText(text)
WriteAttempt(c, n) ==
  /\ attempt' = [attempt EXCEPT ![c] = n]
  /\ \E o \in WriteOutcomes :
       clipboard' = IF o = "written" THEN pasteArg[c] ELSE clipboard
  /\ pastePc' = [pastePc EXCEPT ![c] = "syncWait"]
  /\ UNCHANGED pasteReply

\* the 50 ms timer of the clear check fires: the clipboard is read, and
\* after a verified clear or the third check the first write follows
PasteClearTimer(c) ==
  /\ pastePc[c] = "clearWait"
  /\ IF clipboard = "" \/ clearChecks[c] + 1 = MaxClearChecks
     THEN \* the loop is left, and i with it
          /\ clearChecks' = [clearChecks EXCEPT ![c] = 0]
          /\ WriteAttempt(c, 1)
     ELSE /\ clearChecks' = [clearChecks EXCEPT ![c] = @ + 1]
          /\ UNCHANGED <<clipboard, pastePc, pasteReply, attempt>>
  /\ UNCHANGED <<platform, pasteArg, writeSuccess, pasted, fallback, copyClicks, externalWrites,
                 tailPc, toast>>
  /\ UNCHANGED <<sanVars, recVars, ptVars, hkVars, genVars>>

\* process.platform is read: it is one of the three and stays what it is
ReadPlatform ==
  \E p \in (IF platform = "unknown" THEN Platforms ELSE {platform}) : platform' = p

\* a handler without the throw after the last unverified attempt
PasteSyncTimerNoThrow(c) ==
  /\ pastePc[c] = "syncWait"
  /\ IF clipboard = pasteArg[c] \/ attempt[c] >= MaxAttempts
     THEN /\ writeSuccess' = [writeSuccess EXCEPT ![c] = (clipboard = pasteArg[c])]
          /\ ReadPlatform
          /\ pastePc' = [pastePc EXCEPT ![c] = "importChildProcess"]
          /\ UNCHANGED pasteReply
     ELSE /\ pastePc' = [pastePc EXCEPT ![c] = "retryWait"]
          /\ UNCHANGED <<platform, writeSuccess, pasteReply>>
  /\ UNCHANGED <<clipboard, pasteArg, clearChecks, attempt, pasted, fallback,
                 copyClicks, externalWrites, tailPc, toast>>
  /\ UNCHANGED <<sanVars, recVars, ptVars, hkVars, genVars>>

\* the 100 ms timer after a write fires: verifyClipboard(text), then the
\* paste command of the platform, a retry, or the throw after the last attempt
PasteSyncTimer(c) ==
  /\ pastePc[c] = "syncWait"
  /\ IF clipboard = pasteArg[c]
     THEN /\ writeSuccess' = [writeSuccess EXCEPT ![c] = TRUE]
          /\ ReadPlatform
          /\ pastePc' = [pastePc EXCEPT ![c] = "importChildProcess"]
          /\ UNCHANGED pasteReply
     ELSE IF attempt[c] < MaxAttempts
     THEN /\ pastePc' = [pastePc EXCEPT ![c] = "retryWait"]
          /\ UNCHANGED <<platform, writeSuccess, pasteReply>>
     ELSE PasteFail(c) /\ UNCHANGED <<platform, writeSuccess>>
  /\ UNCHANGED <<clipboard, pasteArg, clearChecks, attempt, pasted, fallback,
                 copyClicks, externalWrites, tailPc, toast>>
  /\ UNCHANGED <<sanVars, recVars, ptVars, hkVars, genVars>>

\* the 100 ms timer before a retry fires: the next write
PasteRetryTimer(c) ==
  /\ pastePc[c] = "retryWait"
  /\ WriteAttempt(c, attempt[c] + 1)
  /\ UNCHANGED <<platform, pasteArg, clearChecks, writeSuccess, pasted, fallback,
                 copyClicks, externalWrites, tailPc, toast>>
  /\ UNCHANGED <<sanVars, recVars, ptVars, hkVars, genVars>>

\* await import('child_process') resolves
PasteImportChildProcess(c) ==
  /\ pastePc[c] = "importChildProcess"
  /\ pastePc' = [pastePc EXCEPT ![c] = "importUtil"]
  /\ UNCHANGED <<platform, clipboard, pasteArg, clearChecks, attempt, writeSuccess,
                 pasted, pasteReply, fallback, copyClicks, externalWrites, tailPc, toast>>
  /\ UNCHANGED <<sanVars, recVars, ptVars, hkVars, genVars>>

\* await import('util') resolves: the command is started
PasteImportUtil(c) ==
  /\ pastePc[c] = "importUtil"
  /\ pastePc' = [pastePc EXCEPT ![c] = IF platform = "linux" THEN "which" ELSE "exec"]
  /\ UNCHANGED <<platform, clipboard, pasteArg, clearChecks, attempt, writeSuccess,
                 pasted, pasteReply, fallback, copyClicks, externalWrites, tailPc, toast>>
  /\ UNCHANGED <<sanVars, recVars, ptVars, hkVars, genVars>>

\* 'which xdotool' ends: with status 0 the keystroke command is started,
\* otherwise the inner catch block is entered and the handler returns success
WhichXdotool(c) ==
  /\ pastePc[c] = "which"
  /\ \E found \in BOOLEAN :
       IF found
       THEN pastePc' = [pastePc EXCEPT ![c] = "exec"] /\ UNCHANGED pasteReply
       ELSE PasteSucceed(c)
  /\ UNCHANGED <<platform, clipboard, pasteArg, clearChecks, attempt, writeSuccess,
                 pasted, fallback, copyClicks, externalWrites, tailPc, toast>>
  /\ UNCHANGED <<sanVars, recVars, ptVars, hkVars, genVars>>

\* the command started by execAsync (osascript, xdotool, powershell) sends
\* the paste keystroke: the active window receives what the clipboard holds
Keystroke(c) ==
  /\ pastePc[c] = "exec"
  /\ pastePc' = [pastePc EXCEPT ![c] = "keyed"]
  /\ pasted' = [pasted EXCEPT ![c] = clipboard]
  /\ UNCHANGED <<platform, clipboard, pasteArg, clearChecks, attempt, writeSuccess,
                 pasteReply, fallback, copyClicks, externalWrites, tailPc, toast>>
  /\ UNCHANGED <<sanVars, recVars, ptVars, hkVars, genVars>>

\* the command ends with status 0
ExecResolved(c) ==
  /\ pastePc[c] = "keyed"
  /\ IF platform = "darwin"
     THEN pastePc' = [pastePc EXCEPT ![c] = "settleWait"] /\ UNCHANGED pasteReply
     ELSE PasteSucceed(c)
  /\ UNCHANGED <<platform, clipboard, pasteArg, clearChecks, attempt, writeSuccess,
                 pasted, fallback, copyClicks, externalWrites, tailPc, toast>>
  /\ UNCHANGED <<sanVars, recVars, ptVars, hkVars, genVars>>

\* the command fails before it has sent the keystroke: on linux the inner
\* catch block returns success, elsewhere the outer one returns failure
ExecRejected(c) ==
  /\ pastePc[c] = "exec"
  /\ IF platform = "linux" THEN PasteSucceed(c) ELSE PasteFail(c)
  /\ UNCHANGED <<platform, clipboard, pasteArg, clearChecks, attempt, writeSuccess,
                 pasted, fallback, copyClicks, externalWrites, tailPc, toast>>
  /\ UNCHANGED <<sanVars, recVars, ptVars, hkVars, genVars>>

\* the 100 ms timer after the keystroke on darwin fires
PasteSettled(c) ==
  /\ pastePc[c] = "settleWait"
  /\ PasteSucceed(c)
  /\ UNCHANGED <<platform, clipboard, pasteArg, clearChecks, attempt, writeSuccess,
                 pasted, fallback, copyClicks, externalWrites, tailPc, toast>>
  /\ UNCHANGED <<sanVars, recVars, ptVars, hkVars, genVars>>

\* the copy-to-clipboard handler: clipboard.writeText(text), no read-back
CopyToClipboard(text, o) ==
  clipboard' = IF o = "written" THEN text ELSE clipboard

\* processAudio calls pasteToActiveWindow(processResult.text)
ProcessAudioPaste ==
  /\ tailPc = "idle"
  /\ tailPc' = "paste"
  /\ PasteEnter("processAudio", ProcessedText)
  /\ UNCHANGED <<sanVars, recVars, ptVars, hkVars, genVars>>

\* pasteToActiveWindow resolves in processAudio: the toast, or the fallback
\* copyToClipboard(processResult.text)
ProcessAudioPasteReplied ==
  /\ tailPc = "paste"
  /\ pastePc["processAudio"] = "done"
  /\ IF pasteReply["processAudio"] = "success"
     THEN /\ toast' = "colada"
          /\ tailPc' = "done"
          /\ UNCHANGED <<clipboard, fallback>>
     ELSE /\ tailPc' = "copy"
          /\ \E o \in WriteOutcomes :
               /\ CopyToClipboard(ProcessedText, o)
               /\ fallback' = [text |-> ProcessedText, outcome |-> o]
          /\ UNCHANGED toast
  /\ UNCHANGED <<platform, pastePc, pasteArg, clearChecks, attempt, writeSuccess, pasted,
                 pasteReply, copyClicks, externalWrites>>
  /\ UNCHANGED <<sanVars, recVars, ptVars, hkVars, genVars>>

\* copyToClipboard resolves in processAudio: the toast, whatever the result
ProcessAudioCopyReplied ==
  /\ tailPc = "copy"
  /\ tailPc' = "done"
  /\ toast' = "copiada"
  /\ UNCHANGED <<platform, clipboard, pastePc, pasteArg, clearChecks, attempt,
                 writeSuccess, pasted, pasteReply, fallback, copyClicks, externalWrites>>
  /\ UNCHANGED <<sanVars, recVars, ptVars, hkVars, genVars>>

\* the button of pasteText: pasteToActiveWindow(finalText)
PasteTextClick ==
  /\ \E text \in FinalTexts : PasteEnter("pasteText", text)
  /\ UNCHANGED tailPc
  /\ UNCHANGED <<sanVars, recVars, ptVars, hkVars, genVars>>

\* the button of copyToClipboard: copyToClipboard(finalText)
CopyClick ==
  /\ copyClicks < MaxCopyClicks
  /\ copyClicks' = copyClicks + 1
  /\ \E text \in FinalTexts, o \in WriteOutcomes : CopyToClipboard(text, o)
  /\ UNCHANGED <<platform, pastePc, pasteArg, clearChecks, attempt, writeSuccess, pasted,
                 pasteReply, fallback, externalWrites, tailPc, toast>>
  /\ UNCHANGED <<sanVars, recVars, ptVars, hkVars, genVars>>

\* another application copies something
ExternalWrite ==
  /\ externalWrites < MaxExternalWrites
  /\ externalWrites' = externalWrites + 1
  /\ clipboard' = ExternalText
  /\ UNCHANGED <<platform, pastePc, pasteArg, clearChecks, attempt, writeSuccess, pasted,
                 pasteReply, fallback, copyClicks, tailPc, toast>>
  /\ UNCHANGED <<sanVars, recVars, ptVars, hkVars, genVars>>

ClipNext ==
  \/ ProcessAudioPaste
  \/ ProcessAudioPasteReplied
  \/ ProcessAudioCopyReplied
  \/ PasteTextClick
  \/ CopyClick
  \/ ExternalWrite
  \/ \E c \in PasteCallers : PasteClearTimer(c)
  \/ \E c \in PasteCallers : PasteSyncTimer(c)
  \/ \E c \in PasteCallers : PasteRetryTimer(c)
  \/ \E c \in PasteCallers : PasteImportChildProcess(c)
  \/ \E c \in PasteCallers : PasteImportUtil(c)
  \/ \E c \in PasteCallers : WhichXdotool(c)
  \/ \E c \in PasteCallers : Keystroke(c)
  \/ \E c \in PasteCallers : ExecResolved(c)
  \/ \E c \in PasteCallers : ExecRejected(c)
  \/ \E c \in PasteCallers : PasteSettled(c)

(***************************************************************************)
(* The process-text handler: getApiKey, processText, saveTranscription.    *)
(***************************************************************************)
MaxProcessCalls == 2
ProcessCalls == 1..MaxProcessCalls

\* the value column of the openai_api_key row
ApiKeyValues == {"", "sk-test"}

\* getApiKey: row?.value || null
GetApiKey == IF apiKey \in {"none", ""} THEN "null" ELSE apiKey

\* the data argument of process-text
ProcessInputs ==
  [text : {"ola mundo", "bom dia"}, mode : {"correct", "translate"},
   targetLanguage : {"pt", "en"}]

\* completion.choices[0]?.message?.content
Contents == {"undefined", "", "Olá, mundo.", "Hello, world."}

\* completion.choices[0]?.message?.content || text
ProcessedTextOf(content, text) == IF content \in {"undefined", ""} THEN text ELSE content

PtInit ==
  /\ apiKey = "none"
  /\ ptPc = [c \in ProcessCalls |-> "idle"]
  /\ ptData = [c \in ProcessCalls |-> "none"]
  /\ ptReply = [c \in ProcessCalls |-> "none"]
  /\ history = <<>>

\* the save-api-key handler: saveApiKey(apiKey)
SaveApiKey ==
  /\ \E k \in ApiKeyValues : apiKey' = k
  /\ UNCHANGED <<ptPc, ptData, ptReply, history>>
  /\ UNCHANGED <<sanVars, recVars, clipVars, hkVars, genVars>>

\* process-text from its entry to its await of processText: without an API
\* key it throws and its catch block returns { success: false, error }
ProcessTextEnter(c) ==
  /\ ptPc[c] = "idle"
  /\ \E data \in ProcessInputs :
       /\ ptData' = [ptData EXCEPT ![c] = [data |-> data, apiKey |-> GetApiKey]]
       /\ IF GetApiKey = "null"
          THEN /\ ptPc' = [ptPc EXCEPT ![c] = "done"]
               /\ ptReply' = [ptReply EXCEPT ![c] =
                                [success |-> FALSE, error |-> "API Key not configured"]]
          ELSE /\ ptPc' = [ptPc EXCEPT ![c] = "awaitProvider"]
               /\ UNCHANGED ptReply
  /\ UNCHANGED <<apiKey, history>>
  /\ UNCHANGED <<sanVars, recVars, clipVars, hkVars, genVars>>

\* a handler that returns the processed text without saving it
ProviderCompletedNoSave(c) ==
  /\ ptPc[c] = "awaitProvider"
  /\ \E content \in Contents :
       ptReply' = [ptReply EXCEPT ![c] =
                     [success |-> TRUE,
                      text |-> ProcessedTextOf(content, ptData[c].data.text)]]
  /\ ptPc' = [ptPc EXCEPT ![c] = "done"]
  /\ UNCHANGED <<apiKey, ptData, history>>
  /\ UNCHANGED <<sanVars, recVars, clipVars, hkVars, genVars>>

\* the completion arrives: processText returns, saveTranscription inserts
\* the row (or throws), and the handler returns
ProviderCompleted(c) ==
  /\ ptPc[c] = "awaitProvider"
  /\ \E content \in Contents, inserted \in BOOLEAN :
       LET processedText == ProcessedTextOf(content, ptData[c].data.text) IN
       IF inserted
       THEN /\ history' = Append(history,
                                 [call |-> c,
                                  originalText |-> ptData[c].data.text,
                                  finalText |-> processedText,
                                  language |-> ptData[c].data.targetLanguage,
                                  mode |-> ptData[c].data.mode])
            /\ ptReply' = [ptReply EXCEPT ![c] = [success |-> TRUE, text |-> processedText]]
       ELSE /\ ptReply' = [ptReply EXCEPT ![c] =
                             [success |-> FALSE, error |-> "database error"]]
            /\ UNCHANGED history
  /\ ptPc' = [ptPc EXCEPT ![c] = "done"]
  /\ UNCHANGED <<apiKey, ptData>>
  /\ UNCHANGED <<sanVars, recVars, clipVars, hkVars, genVars>>

\* openai.chat.completions.create rejects
ProviderFailed(c) ==
  /\ ptPc[c] = "awaitProvider"
  /\ ptPc' = [ptPc EXCEPT ![c] = "done"]
  /\ ptReply' = [ptReply EXCEPT ![c] = [success |-> FALSE, error |-> "provider error"]]
  /\ UNCHANGED <<apiKey, ptData, history>>
  /\ UNCHANGED <<sanVars, recVars, clipVars, hkVars, genVars>>

PtNext ==
  \/ SaveApiKey
  \/ \E c \in ProcessCalls : ProcessTextEnter(c)
  \/ \E c \in ProcessCalls : ProviderCompleted(c)
  \/ \E c \in ProcessCalls : ProviderFailed(c)

(***************************************************************************)
(* The save-hotkey handler: saveHotkey, registerHotkey.                    *)
(***************************************************************************)
MaxHotkeySaves == 3

\* the default of getHotkey
DefaultHotkey == "CommandOrControl+Shift+R"

\* the hotkey argument of save-hotkey
HotkeyInputs == {"Alt+Space", "CommandOrControl+Shift+D", DefaultHotkey, "Ctrl+Shft+R"}

\* accelerators that Electron cannot parse
InvalidAccelerators == {"Ctrl+Shft+R"}

\* getHotkey for a setting: row?.value || 'CommandOrControl+Shift+R'
GetHotkey(setting) == IF setting \in {"none", ""} THEN DefaultHotkey ELSE setting

\* what globalShortcut.register does: it throws when the accelerator cannot
\* be parsed; otherwise it registers and returns true, or returns false
\* (the accelerator is taken by another application)
RegisterOutcomes(accelerator) ==
  IF accelerator \in InvalidAccelerators THEN {"thrown"} ELSE {"true", "false"}

\* after app.whenReady: initDatabase(), registerHotkey()
HkInit ==
  /\ hotkeySetting = "none"
  /\ registered = {GetHotkey("none")}
  /\ hkCalls = 0
  /\ hkArg = "none"
  /\ hkBefore = [setting |-> "none", registered |-> {DefaultHotkey}]
  /\ registerRet = "none"
  /\ hkReply = "none"

\* the save-hotkey handler, from saveHotkey(hotkey) to its return
SaveHotkey ==
  /\ hkCalls < MaxHotkeySaves
  /\ hkCalls' = hkCalls + 1
  /\ hkBefore' = [setting |-> hotkeySetting, registered |-> registered]
  /\ \E hotkey \in HotkeyInputs, stored \in BOOLEAN :
     \E ret \in RegisterOutcomes(GetHotkey(hotkey)) :
       /\ hkArg' = hotkey
       /\ IF ~stored
          THEN \* stmt.run throws: nothing else is done
               /\ registerRet' = "none"
               /\ hkReply' = "failure"
               /\ UNCHANGED <<hotkeySetting, registered>>
          ELSE /\ hotkeySetting' = hotkey
               /\ registerRet' = ret
               \* unregisterAll(), then register(getHotkey(), ...)
               /\ registered' =
                    IF ret = "true"
                    THEN {GetHotkey(hotkey)}
                    ELSE {}
               /\ hkReply' = IF ret = "thrown" THEN "failure" ELSE "success"
  /\ UNCHANGED <<sanVars, recVars, clipVars, ptVars, genVars>>

\* the get-hotkey handler reads the setting; another application takes or
\* releases nothing that is registered here
HkNext == SaveHotkey

(***************************************************************************)
(* Every handler registered with ipcMain.handle: a try block around the    *)
(* whole body and a catch block that returns { success: false, error }.    *)
(***************************************************************************)
MaxInvocations == 2

HandlerChannels ==
  { "save-api-key", "get-api-key", "transcribe-audio", "process-text",
    "copy-to-clipboard", "paste-to-active-window", "get-transcriptions",
    "delete-transcription", "clear-all-transcriptions", "toggle-favorite",
    "update-transcription", "export-transcriptions", "validate-api-key",
    "show-notification", "save-hotkey", "get-hotkey", "save-gpt-model",
    "get-gpt-model", "save-whisper-model", "get-whisper-model",
    "show-overlay-window", "hide-overlay-window", "save-source-language",
    "get-source-language", "save-sound-enabled", "get-sound-enabled" }

\* how the try block of a handler ends: it reaches its last return, it
\* throws (database, provider, clipboard, paste command, missing API key),
\* it throws the 401 of validate-api-key, or it takes one of its earlier returns
BodyOutcomes(ch) ==
  {"returns", "throws"}
    \cup (IF ch = "validate-api-key" THEN {"throws401"} ELSE {})
    \cup (IF ch = "export-transcriptions" THEN {"cancelled"} ELSE {})
    \cup (IF ch = "show-notification" THEN {"unsupported"} ELSE {})

GenInit == invocations = {}

\* the renderer invokes a channel: the handler runs up to its first await
HandlerInvoke(ch) ==
  /\ Cardinality(invocations) < MaxInvocations
  /\ \A inv \in invocations : inv.channel # ch
  /\ invocations' = invocations \cup {[channel |-> ch, state |-> "running"]}
  /\ UNCHANGED <<sanVars, recVars, clipVars, ptVars, hkVars>>

\* a handler without its catch block
HandlerSettleNoCatch(ch) ==
  \E inv \in invocations, o \in BodyOutcomes(ch) :
    /\ inv = [channel |-> ch, state |-> "running"]
    /\ invocations' = (invocations \ {inv}) \cup
         { IF o \in {"throws", "throws401"}
           THEN [channel |-> ch, state |-> "rejected", by |-> o]
           ELSE [channel |-> ch, state |-> "resolved", success |-> o = "returns", by |-> o] }
    /\ UNCHANGED <<sanVars, recVars, clipVars, ptVars, hkVars>>

\* the handler settles: the value of its last return, of an earlier return,
\* or of the return in its catch block
HandlerSettle(ch) ==
  \E inv \in invocations, o \in BodyOutcomes(ch) :
    /\ inv = [channel |-> ch, state |-> "running"]
    /\ invocations' = (invocations \ {inv}) \cup
         { [channel |-> ch, state |-> "resolved",
            success |-> o \in {"returns", "throws401"}, by |-> o] }
    /\ UNCHANGED <<sanVars, recVars, clipVars, ptVars, hkVars>>

GenNext ==
  \/ \E ch \in HandlerChannels : HandlerInvoke(ch)
  \/ \E ch \in HandlerChannels : HandlerSettle(ch)
(***************************************************************************)
(* Properties of the sanitizer and the admission gate.                     *)
(***************************************************************************)
\* the invocation got an answer from the provider and returned
Sanitized == pc = "returned" /\ providerCalls = 1

\* the maximal runs of s between characters of seps, from index i on
RECURSIVE SplitRuns(_, _, _, _)
SplitRuns(s, seps, i, cur) ==
  IF i > Len(s) THEN (IF cur = <<>> THEN <<>> ELSE <<cur>>)
  ELSE IF s[i] \in seps
       THEN (IF cur = <<>> THEN <<>> ELSE <<cur>>) \o SplitRuns(s, seps, i + 1, <<>>)
       ELSE SplitRuns(s, seps, i + 1, Append(cur, s[i]))

LowerWord(w) == [k \in 1..Len(w) |-> Lower(w[k])]

FillerWords == {<<"a","i">>, <<"e","h">>, <<"h","m">>, <<"m","m">>, <<"u","h">>, <<"a","h">>, <<"o","h">>}
OutroStarts == {<<"o","b","r","i","g","a","d","o">>, <<"o","b","r","i","g","a","d","a">>, <<"i","n","s","c","r","e","v","a","-","s","e">>}
IsOutroWord(w) ==
  \/ LowerWord(w) = <<"l","e","g","e","n","d","a","s">>
  \/ \E o \in OutroStarts : PrefixCI(w, o)

\* C1: whenever the cleaned text of transcribeAudio matches any signature of
\* the list, whichever it is, the result is the empty string; the raw text
\* "Obrigado." gives the empty string.
C1_HallucinationYieldsEmpty ==
  (Sanitized /\ body = "transcribeAudio") =>
    /\ (\E k \in 1..13 : Signature(k, cleanText)) => result = <<>>
    /\ rawText = <<"O","b","r","i","g","a","d","o",".">> => result = <<>>

C1_Witness ==
  /\ Sanitized
  /\ body = "transcribeAudio"
  /\ rawText = <<"O","b","r","i","g","a","d","o",".">>
  /\ cleanText = <<"O","b","r","i","g","a","d","o",".">>
  /\ result = <<>>

\* the words of a sentence: the runs between whitespace and , . ! ?
SentenceWords(s) == SplitRuns(s, WhiteSpace \cup {",", ".", "!", "?"}, 1, <<>>)

\* a multi-word sentence without bracket, parenthesis or backslash
IsPlainSentence(s) ==
  /\ \A i \in 1..Len(s) : s[i] \notin {"[", "]", "(", ")", "\\"}
  /\ Len(SentenceWords(s)) >= 2

\* the sentence ends in a filler sound or in an outro phrase: its last word
\* is a filler or begins with 'obrigado', 'obrigada' or 'inscreva', its last
\* words are 'obrigado por assistir', or it goes on from 'legendas'.  (The
\* words are cut at punctuation, so 'inscreva-se' is a word.)
EndsInFillerOrOutro(s) ==
  LET w == SentenceWords(s)
      n == Len(w)
  IN \/ n >= 1 /\ LowerWord(w[n]) \in FillerWords
     \/ n >= 1 /\ \E o \in OutroStarts : PrefixCI(w[n], o)
     \/ /\ n >= 3
        /\ <<LowerWord(w[n - 2]), LowerWord(w[n - 1]), LowerWord(w[n])>>
             = <<<<"o","b","r","i","g","a","d","o">>, <<"p","o","r">>, <<"a","s","s","i","s","t","i","r">>>>
     \/ \E k \in 1..n : LowerWord(w[k]) = <<"l","e","g","e","n","d","a","s">>

\* whitespace and punctuation normalization only
Normalize(s) == CollapsePunctuation(Trim(CollapseSpaces(CollapseDots(s))))

\* C2: a multi-word sentence without annotation, without trailing filler or
\* outro phrase, whose cleaned form matches no signature, is returned by
\* transcribeAudio changed by normalization only, with every word kept.
C2_PassThrough ==
  ( /\ Sanitized
    /\ body = "transcribeAudio"
    /\ IsPlainSentence(rawText)
    /\ ~EndsInFillerOrOutro(rawText)
    /\ \A k \in 1..13 : ~Signature(k, cleanText) ) =>
    /\ result = Normalize(rawText)
    /\ SentenceWords(result) = SentenceWords(rawText)

\* C3: with transcribeAudio, and with transcribeAudioStream on a gpt-4o
\* model, an audio buffer of fewer than 1000 bytes is rejected with '' and a buffer
\* of 1000 bytes or more is forwarded to the provider.
C3_SizeBoundary ==
  ( /\ pc # "idle"
    /\ audioBuffer = "ArrayBuffer"
    /\ fn = "transcribeAudio" \/ (fn = "transcribeAudioStream" /\ IsNewModel(whisperModel)) ) =>
    /\ bufLen < 1000 => (pc = "returned" /\ result = <<>> /\ providerCalls = 0)
    /\ bufLen >= 1000 => providerCalls = 1

C3_Witness ==
  /\ fn = "transcribeAudioStream"
  /\ IsNewModel(whisperModel)
  /\ bufLen = 1000
  /\ pc = "awaitTranscription"
  /\ providerCalls = 1

\* C4: an invocation whose buffer the gate rejected has returned the empty string and
\* made no call of the provider, in both functions.
C4_RejectWithoutProvider ==
  (pc # "idle" /\ audioBuffer = "ArrayBuffer" /\ bufLen < 1000) =>
    (pc = "returned" /\ result = <<>> /\ providerCalls = 0)

C4_Witness ==
  /\ fn = "transcribeAudioStream"
  /\ body = "transcribeAudioStream"
  /\ bufLen = 999
  /\ pc = "returned"
  /\ result = <<>>
  /\ providerCalls = 0

\* C6: the cleanup chain applied to a cleaned text gives that text again.
C6_CleanupIdempotent ==
  Sanitized =>
    IF body = "transcribeAudio"
    THEN CleanUp(cleanText) = cleanText
    ELSE CleanUpStream(cleanText) = cleanText

\* the text outside the annotations, every annotation replaced by "#";
\* <<"bad">> when a delimiter is unmatched or nested, or an annotation holds
\* anything but letters and spaces.  closer is "" outside an annotation.
Letters ==
  AsciiLower \cup {"á", "à", "ã", "â", "é", "ê", "í", "ó", "õ", "ô", "ú", "ç"}
IsLetter(c) == Lower(c) \in Letters

RECURSIVE Outside(_, _, _)
Outside(s, i, closer) ==
  IF i > Len(s) THEN (IF closer = "" THEN <<>> ELSE <<"bad">>)
  ELSE IF closer = ""
       THEN IF s[i] = "[" THEN Outside(s, i + 1, "]")
            ELSE IF s[i] = "(" THEN Outside(s, i + 1, ")")
            ELSE IF IsLetter(s[i]) \/ s[i] = " " THEN <<s[i]>> \o Outside(s, i + 1, "")
            ELSE <<"bad">>
       ELSE IF s[i] = closer THEN <<"#">> \o Outside(s, i + 1, "")
            ELSE IF IsLetter(s[i]) \/ s[i] = " " THEN Outside(s, i + 1, closer)
            ELSE <<"bad">>

\* the items of an annotated text: words and "#" for annotations
Items(s) == SplitRuns(Outside(s, 1, ""), {" "}, 1, <<>>)
SpokenWords(s) == SelectSeq(Items(s), LAMBDA w : w # <<"#">>)

\* words separated by spaces with [..] and (..) annotations between them
IsAnnotatedWords(s) ==
  LET o == Outside(s, 1, "")
      it == Items(s)
  IN /\ Len(s) >= 1
     /\ "bad" \notin {o[i] : i \in 1..Len(o)}
     /\ o[1] # " " /\ o[Len(o)] # " "
     /\ \A k \in 1..Len(it) :
          it[k] = <<"#">> \/ "#" \notin {it[k][j] : j \in 1..Len(it[k])}
     /\ \E k \in 1..Len(it) : it[k] = <<"#">>
     /\ \E k \in 1..Len(it) : it[k] # <<"#">>

RECURSIVE JoinWords(_)
JoinWords(w) ==
  IF w = <<>> THEN <<>>
  ELSE IF Len(w) = 1 THEN w[1]
  ELSE w[1] \o <<" ">> \o JoinWords(Tail(w))

\* C7 as stated: every annotated text is cleaned to its words joined by
\* single spaces.
C7_AnnotationsStripped ==
  (Sanitized /\ IsAnnotatedWords(rawText)) =>
    cleanText = JoinWords(SpokenWords(rawText))

\* C7, amended: an annotated text whose last word is no filler sound and
\* that holds no outro keyword is cleaned to its words joined by single
\* spaces: no annotation left, no run of spaces.
C7_AnnotationsStrippedNoFiller ==
  ( /\ Sanitized
    /\ IsAnnotatedWords(rawText)
    /\ LowerWord(SpokenWords(rawText)[Len(SpokenWords(rawText))]) \notin FillerWords
    /\ \A k \in 1..Len(SpokenWords(rawText)) : ~IsOutroWord(SpokenWords(rawText)[k]) ) =>
    cleanText = JoinWords(SpokenWords(rawText))

C7_Witness ==
  /\ Sanitized
  /\ rawText = <<"H","e","l","l","o"," ","[","m","u","s","i","c","]"," ","w","o","r","l","d">>
  /\ cleanText = <<"H","e","l","l","o"," ","w","o","r","l","d">>

\* C8: a cleaned text of fewer than 20 characters that ends in '?' gives
\* the empty string.
C8_ShortQuestionEmpty ==
  ( /\ Sanitized
    /\ Len(cleanText) >= 1
    /\ Len(cleanText) < 20
    /\ cleanText[Len(cleanText)] = "?" ) =>
    result = <<>>

\* C9: a cleaned text of fewer than 2 characters gives the empty string,
\* also when no signature matches it.
C9_MinimumLength ==
  (Sanitized /\ Len(cleanText) < 2) => result = <<>>

C9_Witness ==
  /\ Sanitized
  /\ cleanText = <<"5">>
  /\ \A k \in 1..13 : ~Signature(k, cleanText)
  /\ result = <<>>

\* C10: a returned value is the empty string, or it has no whitespace at
\* either end, at least 2 characters, and matches no signature.
C10_CleanTranscript ==
  pc = "returned" =>
    \/ result = <<>>
    \/ /\ Len(result) >= 2
       /\ result[1] \notin WhiteSpace
       /\ result[Len(result)] \notin WhiteSpace
       /\ \A k \in 1..13 : ~Signature(k, result)

C10_Witness ==
  /\ pc = "returned"
  /\ body = "transcribeAudioStream"
  /\ result = <<"H","e","l","l","o"," ","w","o","r","l","d">>

(***************************************************************************)
(* Properties of the Recorder.                                             *)
(***************************************************************************)
\* C5: the audio of a recording that stopRecording found shorter than
\* 500 ms is never part of a blob passed to processAudio, so never sent to
\* transcribe-audio.
C5_ShortRecordingRejected ==
  \A r \in Recorders :
    procPc[r] # "none" =>
      \A k \in 1..Len(blob[r]) : ~(stopDuration[blob[r][k].rec] \in 0..499)


(***************************************************************************)
(* Further properties of the sanitizer.                                    *)
(***************************************************************************)
Punctuation == {".", ",", "-", "!", "?", ";", ":"}

\* C11: a cleaned text made only of whitespace and punctuation characters
\* yields the empty result.
C11_PunctuationOnlyEmpty ==
  Sanitized =>
    ( (\A i \in 1..Len(cleanText) : cleanText[i] \in WhiteSpace \cup Punctuation)
        => result = <<>> )

\* a word of letters that is neither a filler sound nor an outro keyword
IsOrdinaryWord(w) ==
  /\ \A i \in 1..Len(w) : IsLetter(w[i])
  /\ LowerWord(w) \notin FillerWords
  /\ ~IsOutroWord(w)

\* the words of s as a set
WordSet(s) == {SentenceWords(s)[k] : k \in 1..Len(SentenceWords(s))}

\* C12: when an outro keyword stands in the middle of a sentence and only
\* ordinary words follow it, the cleanup keeps the words that follow it.
C12_OutroAnchoredAtEnd ==
  (Sanitized /\ IsPlainSentence(rawText)) =>
    LET w == SentenceWords(rawText)
        n == Len(w)
    IN \A k \in 2..(n - 1) :
         ( /\ IsOutroWord(w[k])
           /\ \A j \in 1..n : j # k => IsOrdinaryWord(w[j]) )
           => \A j \in (k + 1)..n : w[j] \in WordSet(cleanText)

\* the signatures that test only how the text begins
OpenerSignatures == 8..12

\* C13: a cleaned text that begins with an opener but is longer than 21
\* characters and does not end in '?' is returned as it is.
C13_OpenersRejectShortQuestionsOnly ==
  ( /\ Sanitized
    /\ \E k \in OpenerSignatures : Signature(k, cleanText)
    /\ Len(cleanText) > ShortQuestionMax + 1
    /\ cleanText[Len(cleanText)] # "?" ) =>
    result = cleanText

\* C15: a call of transcribeAudio without a buffer (undefined, null)
\* resolves to '' and makes no provider call.
C15_GateNeverThrows ==
  (pc # "idle" /\ fn = "transcribeAudio" /\ audioBuffer \in NoBuffers) =>
    /\ pc = "returned"
    /\ result = <<>>
    /\ providerCalls = 0

\* C16: when the provider's response text is empty or undefined,
\* transcribeAudio resolves to ''.
C16_SanitizerNeverThrows ==
  ( /\ body = "transcribeAudio"
    /\ \/ response = "undefined"
       \/ response = "text" /\ rawText = <<>> ) =>
    /\ pc = "returned"
    /\ result = <<>>

(***************************************************************************)
(* Properties of the Recorder component.                                   *)
(***************************************************************************)
\* C14: when transcribe-audio replied an empty text for a recording, no
\* process-text, paste or copy request is made for it and nothing is saved.
C14_EmptyNeverProceeds ==
  \A r \in Recorders :
    transcript[r] = "empty" =>
      /\ requests[r]["process-text"] = 0
      /\ requests[r]["paste-to-active-window"] = 0
      /\ requests[r]["copy-to-clipboard"] = 0
      /\ saved[r] = 0
      /\ procPc[r] = "done"

C14_Witness ==
  \E r \in Recorders :
    /\ transcript[r] = "empty"
    /\ requests[r]["transcribe-audio"] = 1
    /\ procPc[r] = "done"
    /\ ~isProcessingRef

\* the onstop handler of recorder r has run to its end
Settled(r) == recState[r] = "inactive" /\ procPc[r] \in {"none", "skipped", "done"}

\* C17: a recording stopped at 500 ms or later whose blob is above the size
\* gate has caused exactly one transcribe-audio request once its onstop
\* handler has ended.
C17_ExactlyOncePerRecording ==
  \A r \in Recorders :
    ( /\ Settled(r)
      /\ stopDuration[r] >= MinRecordingMs
      /\ BlobSize(blob[r]) > MinBlobBytes ) =>
      requests[r]["transcribe-audio"] = 1

\* C18: the blob handed to processAudio holds chunks of its own recorder
\* only, and no chunk of a recorder is left in the shared buffer once its
\* onstop handler has ended.
C18_ChunkIsolation ==
  \A r \in Recorders :
    /\ procPc[r] # "none" => \A k \in 1..Len(blob[r]) : blob[r][k].rec = r
    /\ Settled(r) => \A k \in 1..Len(audioChunks) : audioChunks[k].rec # r

\* C19: push-to-talk: while the button is not held, no MediaRecorder is
\* recording.
C19_ReleaseStopsRecording ==
  ~buttonHeld => \A r \in Recorders : recState[r] # "recording"

\* C20: hotkey toggle: at most one MediaRecorder is recording at any time.
C20_ToggleAlternates ==
  \A r1, r2 \in Recorders :
    (recState[r1] = "recording" /\ recState[r2] = "recording") => r1 = r2

(***************************************************************************)
(* The two sanitizers compared, and the short-question boundary.           *)
(***************************************************************************)
\* C27: transcribeAudioStream and transcribeAudio are equivalent
\* sanitizers. Whatever one of them returned for a buffer size and a raw
\* provider text is what the body of the other one computes for them (same
\* gate, cleanup chain, signatures and length check), and a call of
\* transcribeAudioStream with a model name without 'gpt-4o' runs the body
\* of transcribeAudio.
C27_StreamEquivalent ==
  /\ ( pc = "returned" /\ providerCalls = 0 ) =>
       ( ~AdmissionGate(bufLen) /\ result = <<>> )
  /\ ( Sanitized /\ body = "transcribeAudioStream" ) =>
       ( AdmissionGate(bufLen) /\ result = FinalText(CleanUp(rawText)) )
  /\ ( Sanitized /\ body = "transcribeAudio" ) =>
       ( AdmissionGate(bufLen) /\ result = FinalTextStream(CleanUpStream(rawText)) )
  /\ ( fn = "transcribeAudioStream" /\ audioBuffer = "ArrayBuffer" ) =>
       ( body = "transcribeAudio" <=> ~IsNewModel(whisperModel) )

C27_Witness ==
  /\ Sanitized
  /\ fn = "transcribeAudioStream"
  /\ body = "transcribeAudioStream"
  /\ rawText = <<"H","e","l","l","o"," ","w","o","r","l","d"," ","o","b","r","i","g","a","d","o">>
  /\ result = <<"H","e","l","l","o"," ","w","o","r","l","d">>

\* a text without a line terminator
SingleLine(s) == \A i \in 1..Len(s) : s[i] \notin LineTerminators

\* a cleaned single-line text ending in '?'
IsQuestion(s) == Len(s) >= 1 /\ s[Len(s)] = "?" /\ SingleLine(s)

C29_WitnessLong ==
  /\ Sanitized
  /\ cleanText = <<"E","u"," ","d","i","g","o"," ","q","u","e"," ","s","i","m",","," ","n","a","d","a","?">>
  /\ Len(cleanText) = ShortQuestionMax + 2
  /\ result = cleanText

(***************************************************************************)
(* The size gate of onstop and the processing flag.                        *)
(***************************************************************************)
\* C28: a blob for which transcribe-audio was invoked is larger than 3000
\* bytes, so the 1000-byte gate of transcribeAudio admits it; for a blob of
\* 3000 bytes or less, onstop ends without processAudio and without any
\* request on any channel.
C28_SentBuffersAboveGate ==
  \A r \in Recorders :
    /\ requests[r]["transcribe-audio"] >= 1 =>
         ( BlobSize(blob[r]) > MinBlobBytes /\ AdmissionGate(BlobSize(blob[r])) )
    /\ ( recState[r] = "inactive" /\ BlobSize(blob[r]) <= MinBlobBytes ) =>
         ( procPc[r] = "none" /\ \A c \in Channels : requests[r][c] = 0 )

C28_Witness ==
  \E r, q \in Recorders :
    /\ recState[r] = "inactive"
    /\ BlobSize(blob[r]) = MinBlobBytes
    /\ procPc[r] = "none"
    /\ BlobSize(blob[q]) = MinBlobBytes + 1
    /\ requests[q]["transcribe-audio"] = 1

\* the processAudio call of recorder r is between its entry and its finally block
InFlight(r) == procPc[r] \in {"arrayBuffer", "transcribe", "processText", "paste", "copy"}

\* C24: at most one processAudio call is in flight; isProcessingRef is true
\* exactly while one is; a call made while it is true has made no request
\* on any channel; after every end of a pipeline the flag is false again.
C24_SinglePipeline ==
  /\ Cardinality({r \in Recorders : InFlight(r)}) <= 1
  /\ isProcessingRef <=> \E r \in Recorders : InFlight(r)
  /\ \A r \in Recorders :
       procPc[r] = "skipped" => \A c \in Channels : requests[r][c] = 0

C24_Witness ==
  \E r, q \in Recorders :
    /\ procPc[r] = "done"
    /\ requests[r]["copy-to-clipboard"] = 1
    /\ ~isProcessingRef
    /\ procPc[q] = "skipped"

(***************************************************************************)
(* The clipboard handlers.                                                 *)
(***************************************************************************)
\* the invocation of caller c is past its write loop
PastCommand(c) ==
  pastePc[c] \in {"importChildProcess", "importUtil", "which", "exec", "keyed", "settleWait"}

\* C25: paste-to-active-window issues the paste keystroke only after a
\* read-back of the clipboard equal to its text succeeded, makes at most 5
\* write attempts, and when none was verified it returns { success: false }
\* without a keystroke.
C25_KeystrokeAfterVerifiedWrite ==
  \A c \in PasteCallers :
    /\ attempt[c] <= MaxAttempts
    /\ ( PastCommand(c) \/ pasted[c] # "none" ) => writeSuccess[c]
    /\ ( pastePc[c] = "done" /\ ~writeSuccess[c] ) =>
         ( pasteReply[c] = "failure" /\ pasted[c] = "none" )

C25_Witness ==
  \E c, d \in PasteCallers :
    /\ pastePc[c] = "done"
    /\ attempt[c] = MaxAttempts
    /\ ~writeSuccess[c]
    /\ pasteReply[c] = "failure"
    /\ pasted[c] = "none"
    /\ writeSuccess[d]
    /\ pasted[d] = pasteArg[d]
    /\ pasteReply[d] = "success"

\* C26: when paste-to-active-window returned success after a keystroke,
\* the clipboard held its text when the keystroke was issued, whatever the
\* other handlers and applications wrote in between.
C26_PastesOwnText ==
  \A c \in PasteCallers :
    ( pasteReply[c] = "success" /\ pasted[c] # "none" ) => pasted[c] = pasteArg[c]

\* C21: when processAudio has shown its success toast, the processed text
\* was pasted after a verified clipboard write, or the fallback
\* copy-to-clipboard wrote it to the clipboard; the fallback runs, with the
\* processed text, whenever paste-to-active-window returned success: false.
C21_ClipboardBackup ==
  /\ toast # "none" =>
       \/ ( writeSuccess["processAudio"] /\ pasted["processAudio"] = ProcessedText )
       \/ fallback = [text |-> ProcessedText, outcome |-> "written"]
  /\ ( tailPc \in {"copy", "done"} /\ pasteReply["processAudio"] = "failure" ) =>
       fallback.text = ProcessedText

(***************************************************************************)
(* The process-text handler.                                               *)
(***************************************************************************)
\* the rows of the transcriptions table that call c inserted
RowsOf(c) == {i \in 1..Len(history) : history[i].call = c}

\* C22: a process-text call that returned success has inserted exactly one
\* row, holding the original text, the processed text it returned, the
\* target language and the mode; a call that found no API key or whose
\* provider failed returned { success: false, error } and inserted no row.
C22_OneRecordPerSuccess ==
  \A c \in ProcessCalls :
    /\ ptPc[c] # "done" => RowsOf(c) = {}
    /\ ptPc[c] = "done" =>
         /\ IF ptReply[c].success
            THEN \E i \in 1..Len(history) :
                   /\ RowsOf(c) = {i}
                   /\ history[i] = [call |-> c,
                                    originalText |-> ptData[c].data.text,
                                    finalText |-> ptReply[c].text,
                                    language |-> ptData[c].data.targetLanguage,
                                    mode |-> ptData[c].data.mode]
            ELSE RowsOf(c) = {}
         /\ ptData[c].apiKey = "null" =>
              ptReply[c] = [success |-> FALSE, error |-> "API Key not configured"]

C22_Witness ==
  \E c, d \in ProcessCalls :
    /\ ptPc[c] = "done"
    /\ ptReply[c] = [success |-> TRUE, text |-> "Hello, world."]
    /\ Cardinality(RowsOf(c)) = 1
    /\ ptPc[d] = "done"
    /\ ptReply[d] = [success |-> FALSE, error |-> "provider error"]
    /\ RowsOf(d) = {}
    /\ Len(history) = 1

(***************************************************************************)
(* The save-hotkey handler.                                                *)
(***************************************************************************)
\* C30: after a save-hotkey in which globalShortcut.register returned false
\* or threw, the hotkey registered before is still registered and is still
\* the persisted one; after a save-hotkey that returned success, exactly
\* the saved hotkey is registered.
C30_HotkeyConsistent ==
  /\ registerRet \in {"false", "thrown"} =>
       ( registered = hkBefore.registered /\ hotkeySetting = hkBefore.setting )
  /\ hkReply = "success" => registered = {hkArg}

vars == <<sanVars, recVars, ipcVars>>

Init == SanInit /\ RecInit /\ ClipInit /\ PtInit /\ HkInit /\ GenInit

\* one invocation of the sanitizer
Next == SanNext

\* the sanitizer and the admission gate
Spec == Init /\ [][Next]_vars

\* the sanitizer entered through transcribeAudioStream, which runs its own
\* body for the gpt-4o models and the body of transcribeAudio for the others
StreamNext ==
  \/ CallTranscribeAudioStream
  \/ TranscriptionReceived
  \/ StreamReceived
  \/ TranscriptionFailed

StreamSpec == Init /\ [][StreamNext]_vars

\* the Recorder component
RecorderNext == RecNext

RecorderSpec == Init /\ [][RecorderNext]_vars

\* the MediaRecorder events and the steps of processAudio
RecorderEvents ==
  \/ GetUserMediaResolved
  \/ GetUserMediaRejected
  \/ \E r \in Recorders : OnDataAvailable(r)
  \/ \E r \in Recorders : OnStop(r)
  \/ \E r \in Recorders : ArrayBufferResolved(r)
  \/ \E r \in Recorders : TranscribeReplied(r)
  \/ \E r \in Recorders : ProcessTextReplied(r)
  \/ \E r \in Recorders : PasteReplied(r)
  \/ \E r \in Recorders : CopyReplied(r)

\* the Recorder driven by the button alone
PushToTalkNext == ButtonPress \/ ButtonRelease \/ RecorderEvents
PushToTalkSpec == Init /\ [][PushToTalkNext]_vars

\* the Recorder driven by the hotkey alone
HotkeyNext == HandleToggle \/ RecorderEvents
HotkeySpec == Init /\ [][HotkeyNext]_vars

\* the clipboard handlers and their callers
ClipboardNext == ClipNext
ClipboardSpec == Init /\ [][ClipboardNext]_vars

\* the process-text handler
ProcessTextNext == PtNext
ProcessTextSpec == Init /\ [][ProcessTextNext]_vars

\* the save-hotkey handler
SaveHotkeyNext == HkNext
SaveHotkeySpec == Init /\ [][SaveHotkeyNext]_vars

\* the try/catch envelope of every handler
HandlerNext == GenNext
HandlerSpec == Init /\ [][HandlerNext]_vars
====
